---- MODULE Spec2Model ----
(***************************************************************************)
(* Podcast-AI front end: the Index page (submission of a generation        *)
(* request, the status poll chain started by the jobId effect, play/pause  *)
(* and download) and the WaveformVisualizer component it renders.          *)
(*                                                                         *)
(* React state is modelled by one variable per useState cell.  A handler   *)
(* together with the effects its state change triggers is one action.      *)
(* The browser's pending work is explicit: POST requests in flight,        *)
(* GET requests in flight, pending setTimeout callbacks and the active     *)
(* setInterval callbacks.  null is 0 for ids and urls and the empty        *)
(* sequence for the stored snapshot.  After the page is unmounted its      *)
(* pending callbacks still run and still call the setters; the variables   *)
(* then hold the values last passed to them.                               *)
(***************************************************************************)
EXTENDS Naturals, Sequences, FiniteSets

VARIABLES topic, generatingPodcast, podcastGenerated, isPlaying, jobId,
          jobStatus, progress, audioUrl,
          mounted, submissions, posts, inflight, timers,
          delivered, checkFailed, lastDownload,
          barHeights, intervals

vars == <<topic, generatingPodcast, podcastGenerated, isPlaying, jobId,
          jobStatus, progress, audioUrl,
          mounted, submissions, posts, inflight, timers,
          delivered, checkFailed, lastDownload,
          barHeights, intervals>>

shellVars == <<topic, generatingPodcast, podcastGenerated, isPlaying, jobId,
               jobStatus, progress, audioUrl>>
netVars == <<submissions, posts, inflight, timers, delivered, checkFailed>>
waveVars == <<barHeights, intervals>>

----------------------------------------------------------------------------
(* Bounds of the model *)

\* number of submissions (POST requests) explored
MaxSubmissions == 2
\* number of bars explored (the component renders barCount of them)
NumBars == 3
\* number of distinct Math.random() outcomes explored, besides the idle value
MaxDraw == 2

----------------------------------------------------------------------------
(* Values *)

Null == 0

\* the service assigns the k-th accepted submission the job id k
JobIds == 1..MaxSubmissions

\* topic texts explored: empty, blank, and text with blanks around it
Topics == {<<>>, <<" ", " ">>, <<" ", "a", " ">>}

RECURSIVE TrimStart(_)
TrimStart(s) ==
    IF s # <<>> /\ Head(s) = " " THEN TrimStart(Tail(s)) ELSE s

RECURSIVE TrimEnd(_)
TrimEnd(s) ==
    IF s # <<>> /\ s[Len(s)] = " " THEN TrimEnd(SubSeq(s, 1, Len(s) - 1)) ELSE s

\* String.prototype.trim
Trim(s) == TrimEnd(TrimStart(s))

\* wire progress, in tenths (0.4, 1.0)
ProgressTenths == {4, 10}

\* data.progress * 100
ProgressPercent(p) == (p * 100) \div 10

\* the JobStatus bodies the service can answer GET /api/podcast/{j} with
Snapshots(j) ==
    [job_id : {j}, status : {"queued", "processing"}, progress : ProgressTenths,
     audio_url : {Null}, video_url : {Null}, error : {Null}]
    \cup
    [job_id : {j}, status : {"completed"}, progress : ProgressTenths,
     audio_url : {Null, j}, video_url : {Null, j}, error : {Null}]
    \cup
    [job_id : {j}, status : {"failed"}, progress : ProgressTenths,
     audio_url : {Null}, video_url : {Null}, error : {j}]

\* the initial height of a bar: class h-1/5, and the "20%" of updateBars
IdleHeight == 20

\* Math.random() * 100, in percent, sampled
RandomHeights ==
    {IdleHeight} \cup {(k * 99) \div MaxDraw : k \in 0..MaxDraw}

Bars == 1..NumBars

\* setInterval(updateBars, 100)
TickPeriod == 100

\* setTimeout(checkStatus, 2000)
PollDelay == 2000

----------------------------------------------------------------------------
(* WaveformVisualizer *)

\* updateBars: the closure's playing decides every bar
updateBars(playing, draw) ==
    [b \in Bars |-> IF playing THEN draw[b] ELSE IdleHeight]

\* body of the [playing] effect: early return unless playing, else setInterval
WaveEffect(playing, ivs) ==
    IF ~playing THEN ivs
    ELSE Append(ivs, [playing |-> playing, period |-> TickPeriod])

\* (mutant) the effect returns no cleanup: the interval is never cleared
WaveCleanup_None(prevPlaying, ivs) == ivs

\* cleanup of the [playing] effect, as returned by its previous run: a run
\* that returned early has no cleanup, the other clears its interval
WaveCleanup(prevPlaying, ivs) ==
    IF prevPlaying /\ ivs # <<>> THEN SubSeq(ivs, 1, Len(ivs) - 1) ELSE ivs

\* the parent renders the component with the other value of playing: the
\* previous run's cleanup, then the effect body
SetPlaying ==
    /\ mounted
    /\ isPlaying' = ~isPlaying
    /\ intervals' = WaveEffect(~isPlaying, WaveCleanup(isPlaying, intervals))
    /\ UNCHANGED <<topic, generatingPodcast, podcastGenerated, jobId, jobStatus,
                   progress, audioUrl, netVars, mounted, lastDownload,
                   barHeights>>

\* an interval callback runs
Tick ==
    /\ \E i \in 1..Len(intervals) :
         \E draw \in [Bars -> RandomHeights] :
            barHeights' = updateBars(intervals[i].playing, draw)
    /\ UNCHANGED <<shellVars, netVars, mounted, lastDownload, intervals>>

----------------------------------------------------------------------------
(* Index *)

Init ==
    /\ topic = <<>>
    /\ generatingPodcast = FALSE
    /\ podcastGenerated = FALSE
    /\ isPlaying = FALSE
    /\ jobId = Null
    /\ jobStatus = <<>>
    /\ progress = 0
    /\ audioUrl = Null
    /\ mounted = TRUE
    /\ submissions = 0
    /\ posts = {}
    /\ inflight = [j \in JobIds |-> 0]
    /\ timers = <<>>
    /\ delivered = [j \in JobIds |-> "none"]
    /\ checkFailed = [j \in JobIds |-> 0]
    /\ lastDownload = Null
    /\ barHeights = [b \in Bars |-> IdleHeight]
    /\ intervals = WaveEffect(FALSE, <<>>)

\* the topic input's onChange
SetTopic(t) ==
    /\ mounted
    /\ t # topic
    /\ topic' = t
    /\ UNCHANGED <<generatingPodcast, podcastGenerated, isPlaying, jobId,
                   jobStatus, progress, audioUrl, netVars, mounted,
                   lastDownload, waveVars>>

\* (mutant) the button is disabled for an empty topic only
GenerateEnabled_TopicOnly == Trim(topic) # <<>>

\* the Generate button is clickable
GenerateEnabled == ~(generatingPodcast \/ Trim(topic) = <<>>)

\* a click on Generate: handleGeneratePodcast up to its fetch
HandleGeneratePodcast ==
    /\ mounted
    /\ GenerateEnabled
    /\ submissions < MaxSubmissions
    /\ IF Trim(topic) = <<>>
       THEN UNCHANGED <<generatingPodcast, podcastGenerated, jobId, jobStatus,
                        progress, submissions, posts>>
       ELSE /\ generatingPodcast' = TRUE
            /\ podcastGenerated' = FALSE
            /\ jobId' = Null
            /\ jobStatus' = <<>>
            /\ progress' = 0
            /\ submissions' = submissions + 1
            /\ posts' = posts \cup {submissions + 1}
    /\ UNCHANGED <<topic, isPlaying, audioUrl, inflight, timers, delivered,
                   checkFailed, mounted, lastDownload, waveVars>>

\* the [jobId] effect: nothing for null, else checkStatus() issues its fetch
JobEffect(id, reqs) ==
    IF id = Null THEN reqs ELSE [reqs EXCEPT ![id] = @ + 1]

\* the POST answers 2xx with job_id = k: setJobId, then the [jobId] effect,
\* which runs when the page is rendered again with another jobId
PostResolved(k) ==
    /\ k \in posts
    /\ posts' = posts \ {k}
    /\ jobId' = k
    /\ inflight' = IF mounted /\ k # jobId THEN JobEffect(k, inflight)
                   ELSE inflight
    /\ UNCHANGED <<topic, generatingPodcast, podcastGenerated, isPlaying,
                   jobStatus, progress, audioUrl, submissions, timers,
                   delivered, checkFailed, mounted, lastDownload, waveVars>>

\* the POST fails (transport error or non-2xx): the catch block
PostRejected(k) ==
    /\ k \in posts
    /\ posts' = posts \ {k}
    /\ generatingPodcast' = FALSE
    /\ UNCHANGED <<topic, podcastGenerated, isPlaying, jobId, jobStatus,
                   progress, audioUrl, submissions, inflight, timers,
                   delivered, checkFailed, mounted, lastDownload, waveVars>>

\* (mutant) the "failed" branch is missing, so a failed job is polled again
Reschedule_FailedRepolls(status, j, ts) ==
    IF status = "completed" THEN ts
    ELSE Append(ts, [job |-> j, delay |-> PollDelay])

\* (mutant) the else branch does not call setTimeout
Reschedule_Never(status, j, ts) == ts

\* the if / else-if / else on data.status: only the last re-polls
Reschedule(status, j, ts) ==
    IF status = "completed" THEN ts
    ELSE IF status = "failed" THEN ts
    ELSE Append(ts, [job |-> j, delay |-> PollDelay])

\* (mutant) both terminal branches call setPodcastGenerated(true)
PodcastGeneratedAfter_AnyTerminal(status, prev) ==
    IF status \in {"completed", "failed"} THEN TRUE ELSE prev

\* setPodcastGenerated(true) in the "completed" branch only
PodcastGeneratedAfter(status, prev) ==
    IF status = "completed" THEN TRUE ELSE prev

\* setGeneratingPodcast(false) in the "completed" and the "failed" branch
GeneratingAfter(status, prev) ==
    IF status = "completed" THEN FALSE
    ELSE IF status = "failed" THEN FALSE
    ELSE prev

\* checkStatus of job j after its fetch answered 2xx with data
CheckStatusResolved(j, data) ==
    /\ inflight[j] > 0
    /\ inflight' = [inflight EXCEPT ![j] = @ - 1]
    /\ jobStatus' = <<data>>
    /\ progress' = ProgressPercent(data.progress)
    /\ delivered' = [delivered EXCEPT ![j] = data.status]
    /\ generatingPodcast' = GeneratingAfter(data.status, generatingPodcast)
    /\ podcastGenerated' = PodcastGeneratedAfter(data.status, podcastGenerated)
    /\ audioUrl' = IF data.status = "completed" THEN data.audio_url ELSE audioUrl
    /\ timers' = Reschedule(data.status, j, timers)
    /\ UNCHANGED <<topic, isPlaying, jobId, submissions, posts, checkFailed,
                   mounted, lastDownload, waveVars>>

\* (mutant) the catch block retries the query after the poll delay
CheckStatusRejected_Retry(j) ==
    /\ inflight[j] > 0
    /\ inflight' = [inflight EXCEPT ![j] = @ - 1]
    /\ checkFailed' = [checkFailed EXCEPT ![j] = @ + 1]
    /\ delivered' = [delivered EXCEPT ![j] = "error"]
    /\ generatingPodcast' = FALSE
    /\ timers' = Append(timers, [job |-> j, delay |-> PollDelay])
    /\ UNCHANGED <<topic, podcastGenerated, isPlaying, jobId, jobStatus,
                   progress, audioUrl, submissions, posts, mounted,
                   lastDownload, waveVars>>

\* checkStatus of job j after its fetch failed: the catch block
CheckStatusRejected(j) ==
    /\ inflight[j] > 0
    /\ inflight' = [inflight EXCEPT ![j] = @ - 1]
    /\ checkFailed' = [checkFailed EXCEPT ![j] = @ + 1]
    /\ delivered' = [delivered EXCEPT ![j] = "error"]
    /\ generatingPodcast' = FALSE
    /\ UNCHANGED <<topic, podcastGenerated, isPlaying, jobId, jobStatus,
                   progress, audioUrl, submissions, posts, timers, mounted,
                   lastDownload, waveVars>>

\* the oldest setTimeout(checkStatus, 2000) fires: checkStatus issues its fetch
TimerFire ==
    /\ timers # <<>>
    /\ timers' = Tail(timers)
    /\ inflight' = [inflight EXCEPT ![Head(timers).job] = @ + 1]
    /\ UNCHANGED <<shellVars, submissions, posts, delivered, checkFailed,
                   mounted, lastDownload, waveVars>>

\* a click on Play/Pause, with the WaveformVisualizer effect it re-runs
TogglePlayPause ==
    /\ mounted
    /\ podcastGenerated
    /\ IF ~podcastGenerated
       THEN UNCHANGED <<isPlaying, intervals>>
       ELSE /\ isPlaying' = ~isPlaying
            /\ intervals' = WaveEffect(~isPlaying, WaveCleanup(isPlaying, intervals))
    /\ UNCHANGED <<topic, generatingPodcast, podcastGenerated, jobId, jobStatus,
                   progress, audioUrl, netVars, mounted, lastDownload,
                   barHeights>>

\* jobStatus?.video_url
VideoUrl == IF jobStatus = <<>> THEN Null ELSE jobStatus[1].video_url

\* a click on Download
DownloadPodcast ==
    /\ mounted
    /\ podcastGenerated
    /\ IF ~podcastGenerated \/ VideoUrl = Null
       THEN UNCHANGED lastDownload
       ELSE lastDownload' = VideoUrl
    /\ UNCHANGED <<shellVars, netVars, mounted, waveVars>>

\* the page unmounts: the WaveformVisualizer cleanup runs, the [jobId]
\* effect returns no cleanup
Unmount ==
    /\ mounted
    /\ mounted' = FALSE
    /\ intervals' = WaveCleanup(isPlaying, intervals)
    /\ UNCHANGED <<shellVars, netVars, lastDownload, barHeights>>

Next ==
    \/ \E t \in Topics : SetTopic(t)
    \/ HandleGeneratePodcast
    \/ \E k \in JobIds : PostResolved(k)
    \/ \E k \in JobIds : PostRejected(k)
    \/ \E j \in JobIds : \E data \in Snapshots(j) : CheckStatusResolved(j, data)
    \/ \E j \in JobIds : CheckStatusRejected(j)
    \/ TimerFire
    \/ TogglePlayPause
    \/ DownloadPodcast
    \/ Unmount

\* the Index page; the tick callbacks of its WaveformVisualizer are left to
\* WaveSpec
Spec == Init /\ [][Next]_vars

WaveNext ==
    \/ SetPlaying
    \/ Tick
    \/ Unmount

\* the WaveformVisualizer under every sequence of values of its playing prop
WaveSpec == Init /\ [][WaveNext]_vars

\* scheduling of the event loop and of the service: a pending timer fires, a
\* query in flight is answered, and a job that keeps being queried is
\* eventually answered with a terminal status or an error
TerminalAnswer ==
    \E j \in JobIds :
       \/ CheckStatusRejected(j)
       \/ \E data \in Snapshots(j) :
             data.status \in {"completed", "failed"} /\ CheckStatusResolved(j, data)

AnyAnswer ==
    \E j \in JobIds :
       \/ CheckStatusRejected(j)
       \/ \E data \in Snapshots(j) : CheckStatusResolved(j, data)

LiveSpec ==
    /\ Spec
    /\ WF_vars(TimerFire)
    /\ WF_vars(AnyAnswer)
    /\ SF_vars(TerminalAnswer)

----------------------------------------------------------------------------
(* Properties *)

TerminalStatus == {"completed", "failed"}

\* number of pending re-poll timers of job j in ts
TimerCount(ts, j) == Len(SelectSeq(ts, LAMBDA t : t.job = j))

RECURSIVE SumOver(_, _)
SumOver(f, S) ==
    IF S = {} THEN 0
    ELSE LET x == CHOOSE y \in S : TRUE IN f[x] + SumOver(f, S \ {x})

\* poll chains alive: queries in flight plus pending re-poll timers
ActiveChains == SumOver(inflight, JobIds) + Len(timers)

ChainActive(j) == inflight[j] > 0 \/ TimerCount(timers, j) > 0

\* a status query for job j is issued in this step
QueryIssued(j) == inflight'[j] > inflight[j]

\* a re-poll of job j is scheduled in this step
RepollScheduled(j) == TimerCount(timers', j) > TimerCount(timers, j)

\* C1: once checkStatus has delivered a snapshot with status 'completed' or
\* 'failed' for a job id, that job's chain is dead (no query in flight, no
\* timer pending) and no status query is issued for that id ever again; a
\* re-poll is scheduled only in the step that delivers a snapshot whose
\* status is neither, and with the fixed poll delay.
C1_StopAfterTerminal ==
    /\ [](\A j \in JobIds :
            delivered[j] \in TerminalStatus => ~ChainActive(j))
    /\ [][\A j \in JobIds :
            /\ delivered[j] \in TerminalStatus =>
                  ~QueryIssued(j) /\ ~RepollScheduled(j) /\ delivered'[j] = delivered[j]
            /\ RepollScheduled(j) =>
                  /\ inflight'[j] < inflight[j]
                  /\ delivered'[j] \notin TerminalStatus \cup {"none", "error"}
                  /\ timers'[Len(timers')] = [job |-> j, delay |-> PollDelay]]_vars

C1_Witness ==
    \E j \in JobIds :
       /\ delivered[j] = "failed"
       /\ jobStatus # <<>> /\ jobStatus[1].job_id = j
       /\ ~ChainActive(j)

\* C2: once the page is unmounted (the polling effect torn down), no status
\* query is issued and no snapshot is delivered any more.
C2_CancelStopsPolling ==
    [][~mounted =>
          /\ \A j \in JobIds : ~QueryIssued(j)
          /\ delivered' = delivered
          /\ jobStatus' = jobStatus
          /\ progress' = progress]_vars

\* C3: a failed status query ends the chain: the failure is reported once,
\* nothing is in flight or scheduled for that job afterwards, no query is
\* issued for it again, and generatingPodcast is cleared.
C3_QueryErrorIsTerminal ==
    /\ [](\A j \in JobIds :
            /\ checkFailed[j] <= 1
            /\ delivered[j] = "error" => checkFailed[j] = 1 /\ ~ChainActive(j))
    /\ [][\A j \in JobIds :
            /\ checkFailed'[j] # checkFailed[j] =>
                  /\ checkFailed'[j] = 1
                  /\ delivered'[j] = "error"
                  /\ ~generatingPodcast'
                  /\ inflight'[j] = 0
                  /\ TimerCount(timers', j) = 0
            /\ delivered[j] = "error" =>
                  /\ ~QueryIssued(j) /\ ~RepollScheduled(j)
                  /\ delivered'[j] = "error"
                  /\ checkFailed'[j] = checkFailed[j]]_vars

C3_Witness ==
    \E j \in JobIds :
       /\ checkFailed[j] = 1
       /\ delivered[j] = "error"
       /\ ~generatingPodcast
       /\ ~ChainActive(j)

\* C4: at most one poll chain is alive, over all job ids and hence per job
\* id; a chain or a submission request is alive only while generatingPodcast
\* is true, so a new submission starts only when none is.
C4_OneChain ==
    /\ [](/\ ActiveChains + Cardinality(posts) <= 1
          /\ \A j \in JobIds : inflight[j] + TimerCount(timers, j) <= 1
          /\ ActiveChains + Cardinality(posts) > 0 => generatingPodcast)
    /\ [][submissions' > submissions =>
             ActiveChains = 0 /\ posts = {} /\ ~generatingPodcast]_vars

C4_Witness ==
    /\ submissions = 2
    /\ delivered[1] = "completed"
    /\ ChainActive(2)

\* C5: once playing is false and no tick callback is left to run (so that
\* nothing can change a bar any more), every bar is at the idle height of 20%.
C5_IdleWhenStopped ==
    (mounted /\ ~isPlaying /\ intervals = <<>>) =>
        \A b \in Bars : barHeights[b] = IdleHeight

\* C6: isPlaying is true only while a result is active (podcastGenerated).
C6_PlayingOnlyWhenGenerated == isPlaying => podcastGenerated

\* C7: after a failed submission and after a snapshot with status 'failed',
\* generatingPodcast and podcastGenerated are false, nothing is in flight or
\* scheduled for the failed submission, and no result of an earlier job is
\* left populated.
C7_FailureLeavesNoResult ==
    [][/\ (\E k \in JobIds : PostRejected(k)) =>
             /\ ~generatingPodcast' /\ ~podcastGenerated'
             /\ jobId' = Null /\ jobStatus' = <<>> /\ progress' = 0
             /\ ActiveChains' = 0
             /\ audioUrl' = Null
       /\ \A j \in JobIds :
             (delivered'[j] = "failed" /\ inflight'[j] < inflight[j]) =>
                /\ ~generatingPodcast' /\ ~podcastGenerated'
                /\ ~ChainActive(j)'
                /\ jobStatus'[1].job_id = j
                /\ jobStatus'[1].audio_url = Null /\ jobStatus'[1].video_url = Null
                /\ audioUrl' = Null]_vars

\* C8: exactly one tick timer of period 100 is active while the page is mounted and
\* playing is true and none otherwise, and the bar heights change only while
\* playing is true.
C8_TimerIffPlaying ==
    /\ [](/\ Len(intervals) = IF mounted /\ isPlaying THEN 1 ELSE 0
          /\ \A i \in 1..Len(intervals) :
                intervals[i] = [playing |-> TRUE, period |-> TickPeriod])
    /\ [][barHeights' # barHeights => isPlaying /\ mounted /\ UNCHANGED intervals]_vars

C8_Witness ==
    /\ mounted
    /\ ~isPlaying
    /\ intervals = <<>>
    /\ \E b \in Bars : barHeights[b] # IdleHeight

\* C9: under the scheduling of LiveSpec an active chain eventually stops with
\* generatingPodcast false; a pending re-poll eventually issues its query;
\* and every delivery of a non-terminal snapshot leaves a re-poll of the same
\* job scheduled with the poll delay, so the chain never stops by itself.
C9_RunsUntilTerminal ==
    /\ \A j \in JobIds :
          /\ ChainActive(j) ~> (~ChainActive(j) /\ ~generatingPodcast)
          /\ (TimerCount(timers, j) > 0) ~> (inflight[j] > 0)
    /\ [][\A j \in JobIds :
            (inflight'[j] < inflight[j] /\ delivered'[j] \notin TerminalStatus \cup {"error"}) =>
                /\ RepollScheduled(j)
                /\ timers'[Len(timers')] = [job |-> j, delay |-> PollDelay]
                /\ generatingPodcast' = generatingPodcast]_vars

C9_Witness ==
    \E j \in JobIds :
       /\ delivered[j] = "processing"
       /\ TimerCount(timers, j) = 1
       /\ generatingPodcast

\* C10: podcastGenerated implies that the stored snapshot is the completed
\* snapshot of the current jobId, which is the most recent submission; a
\* download takes the video of that snapshot; a new submission clears
\* podcastGenerated, jobId, jobStatus and progress in the step that sends
\* its request.
C10_GeneratedMeansCompleted ==
    /\ [](podcastGenerated =>
            /\ jobStatus # <<>>
            /\ jobStatus[1].status = "completed"
            /\ jobId # Null
            /\ jobStatus[1].job_id = jobId
            /\ jobId = submissions)
    /\ [][/\ lastDownload' # lastDownload =>
                /\ podcastGenerated
                /\ lastDownload' = jobStatus[1].video_url
                /\ lastDownload' = jobId
          /\ isPlaying' # isPlaying => podcastGenerated
          /\ submissions' > submissions =>
                /\ ~podcastGenerated' /\ jobId' = Null
                /\ jobStatus' = <<>> /\ progress' = 0
                /\ posts' = posts \cup {submissions'}]_vars

C10_Witness ==
    /\ podcastGenerated
    /\ submissions = 2
    /\ lastDownload = 2

====
